---- MODULE Spec2Model ----
(***************************************************************************)
(* A model of the youtube-transcriber scripts: a.py (audio download with   *)
(* client fallbacks + Whisper), alternative_transcript.py (captions API),  *)
(* hybrid_approach.py (captions API, then a hand-off file),                *)
(* local_with_auth.py (audio download + Whisper on the hand-off file) and  *)
(* create_batches.py (splitting the links file).                           *)
(*                                                                         *)
(* Text is modelled as a sequence of characters, each a one-character      *)
(* string.  In a line of a links file a longer string stands for a run of  *)
(* characters that holds no whitespace, no '#' and no '/', and that is     *)
(* never part of a video id (an opaque piece of a URL or of a comment);    *)
(* "v=" is one such piece.  None, '' and [] are all the empty sequence:    *)
(* the scripts only ever test them for truthiness.  An audio file is named *)
(* by the number of the link whose download produced it (0 is None), and a *)
(* transcript <<n>> is the text of the speech of video n.                  *)
(*                                                                         *)
(* The external libraries (yt-dlp, Whisper, the captions API) and the file *)
(* system are nondeterministic: each call succeeds or fails in any of the  *)
(* ways the scripts distinguish.  print, time.sleep and random.uniform are *)
(* taken never to raise.                                                   *)
(***************************************************************************)
EXTENDS Integers, Sequences, FiniteSets, TLC

VARIABLES
    script,            \* which script is running
    pc,                \* the position of the script
    fileExists,        \* whether the links file can be opened
    fileLines,         \* the lines of the links file, without their "\n"
    links,             \* youtube_links / links: what read_links_from_file returned
    i,                 \* the 1-based index of enumerate(links, 1)
    successful_count,  \* successful_count / successful
    failed_count,      \* failed_count / failed
    failed_urls,       \* hybrid_approach.py: failed_urls
    attempted,         \* history: the links whose processing was started, in order
    results,           \* history: per handled link, what its handling did
    attempts,          \* history: the attempts of the fallback list for this link
    player_client,     \* ydl_opts['extractor_args']['youtube']['player_client']
    audio_file,        \* audio_file / output_file (0 is None)
    video_title,       \* video_title
    transcript,        \* transcript
    clean_title,       \* save_transcript_to_file: clean_title
    filename,          \* save_transcript_to_file: the filename given to open()
    transcripts,       \* the transcript files on disk: records [name, content]
    audioFiles,        \* the media files on disk
    remaining_file,    \* hybrid_approach.py: the lines of remaining_links.txt
    batch_size,        \* create_batches: batch_size
    batch_i,           \* create_batches: the loop index i of range(total_batches)
    batch_files,       \* create_batches: the batch files: records [name, lines]
    summary_file       \* create_batches: what batches_summary.txt tells

vars == <<script, pc, fileExists, fileLines, links, i, successful_count,
          failed_count, failed_urls, attempted, results, attempts,
          player_client, audio_file, video_title, transcript, clean_title,
          filename, transcripts, audioFiles, remaining_file, batch_size,
          batch_i, batch_files, summary_file>>

--------------------------------------------------------------------------
(* Bounds of the model *)

MaxFileLines == 2     \* lines of a links file given to read_links_from_file
MaxLinks == 2         \* lines of the links file of a pipeline run
MaxTitleLen == 2      \* characters of a short video title
MaxBatchLines == 4    \* lines of the links file given to create_batches
MaxBatchSize == 3     \* batch_size of create_batches

--------------------------------------------------------------------------
(* Text helpers: Python's str.strip, str.startswith, str.replace *)

Whitespace == {" ", "\t"}

RECURSIVE LStrip(_)
LStrip(s) ==
    IF s # <<>> /\ Head(s) \in Whitespace THEN LStrip(Tail(s)) ELSE s

RECURSIVE RStrip(_)
RStrip(s) ==
    IF s # <<>> /\ s[Len(s)] \in Whitespace
    THEN RStrip(SubSeq(s, 1, Len(s) - 1)) ELSE s

\* line.strip()
Strip(s) == RStrip(LStrip(s))

\* line.startswith(c) for a one-character c
StartsWith(s, c) == s # <<>> /\ Head(s) = c

\* A variant that replaces the first occurrence only.
ReplaceFirstOnly(s, old, new) ==
    LET hits == {j \in 1..Len(s) : s[j] = old}
    IN  IF hits = {} THEN s
        ELSE LET p == CHOOSE j \in hits : \A m \in hits : j <= m
             IN  SubSeq(s, 1, p - 1) \o new \o SubSeq(s, p + 1, Len(s))

\* s.replace(old, new) for a one-character old and a new of at most one
\* character: every occurrence of old is replaced (deleted when new is '')
Replace(s, old, new) ==
    IF new = <<>>
    THEN SelectSeq(s, LAMBDA c : c # old)
    ELSE [j \in 1..Len(s) |-> IF s[j] = old THEN new[1] ELSE s[j]]

\* All sequences over S of length at most n
SeqsUpTo(S, n) == UNION {[1..m -> S] : m \in 0..n}

\* [line.strip() for line in lines]
StripAll(lines) == [j \in 1..Len(lines) |-> Strip(lines[j])]

--------------------------------------------------------------------------
(* read_links_from_file *)

\* a.py: [line.strip() for line in f if line.strip()], [] when open() raises
a_read_links_from_file(exists, lines) ==
    IF ~exists THEN <<>>
    ELSE StripAll(SelectSeq(lines, LAMBDA line : Strip(line) # <<>>))

\* [line.strip() for line in f if line.strip() and not line.startswith('#')],
\* [] when open() raises
alternative_read_links_from_file(exists, lines) ==
    IF ~exists THEN <<>>
    ELSE StripAll(SelectSeq(lines, LAMBDA line :
                    Strip(line) # <<>> /\ ~StartsWith(line, "#")))

\* A variant that keeps the comment lines.
hybrid_read_links_keeping_comments(exists, lines) ==
    IF ~exists THEN <<>>
    ELSE StripAll(SelectSeq(lines, LAMBDA line : Strip(line) # <<>>))

hybrid_read_links_from_file(exists, lines) ==
    IF ~exists THEN <<>>
    ELSE StripAll(SelectSeq(lines, LAMBDA line :
                    Strip(line) # <<>> /\ ~StartsWith(line, "#")))

local_read_links_from_file(exists, lines) ==
    IF ~exists THEN <<>>
    ELSE StripAll(SelectSeq(lines, LAMBDA line :
                    Strip(line) # <<>> /\ ~StartsWith(line, "#")))

read_links_from_file(s, exists, lines) ==
    CASE s = "a" -> a_read_links_from_file(exists, lines)
      [] s = "alternative" -> alternative_read_links_from_file(exists, lines)
      [] s = "hybrid" -> hybrid_read_links_from_file(exists, lines)
      [] s = "local" -> local_read_links_from_file(exists, lines)

PipelineScripts == {"a", "alternative", "hybrid", "local"}

--------------------------------------------------------------------------
(* save_transcript_to_file: the four scripts hold the same text *)

FilenamePrefix == <<"t", "r", "a", "n", "s", "c", "r", "i", "p", "t", "_">>
FilenameSuffix == <<".", "t", "x", "t">>

\* the limit of "if len(filename) > 200" and of filename[:200]
MaxFilenameLen == 200

\* A variant that forgets the '?' of the chain.
CleanTitleNoQuestionMark(title) ==
    LET r1 == Replace(title, " ", <<"_">>)
        r2 == Replace(r1, "|", <<>>)
        r3 == Replace(r2, "/", <<"_">>)
        r4 == Replace(r3, "\\", <<"_">>)
        r5 == Replace(r4, ":", <<"_">>)
        r7 == Replace(r5, "*", <<"_">>)
        r8 == Replace(r7, "<", <<"_">>)
        r9 == Replace(r8, ">", <<"_">>)
    IN  Replace(r9, "\"", <<"_">>)

\* A variant whose replacements stop at the first occurrence.
CleanTitleFirstOnly(title) ==
    LET r1 == ReplaceFirstOnly(title, " ", <<"_">>)
        r2 == ReplaceFirstOnly(r1, "|", <<>>)
        r3 == ReplaceFirstOnly(r2, "/", <<"_">>)
        r4 == ReplaceFirstOnly(r3, "\\", <<"_">>)
        r5 == ReplaceFirstOnly(r4, ":", <<"_">>)
        r6 == ReplaceFirstOnly(r5, "?", <<"_">>)
        r7 == ReplaceFirstOnly(r6, "*", <<"_">>)
        r8 == ReplaceFirstOnly(r7, "<", <<"_">>)
        r9 == ReplaceFirstOnly(r8, ">", <<"_">>)
    IN  ReplaceFirstOnly(r9, "\"", <<"_">>)

\* clean_title = video_title.replace(' ', '_').replace('|', '')...replace('"', '_')
CleanTitle(title) ==
    LET r1 == Replace(title, " ", <<"_">>)
        r2 == Replace(r1, "|", <<>>)
        r3 == Replace(r2, "/", <<"_">>)
        r4 == Replace(r3, "\\", <<"_">>)
        r5 == Replace(r4, ":", <<"_">>)
        r6 == Replace(r5, "?", <<"_">>)
        r7 == Replace(r6, "*", <<"_">>)
        r8 == Replace(r7, "<", <<"_">>)
        r9 == Replace(r8, ">", <<"_">>)
    IN  Replace(r9, "\"", <<"_">>)

\* filename = f"transcript_{clean_title}.txt";
\* if len(filename) > 200: filename = filename[:200] + ".txt"
Filename(clean) ==
    LET name == FilenamePrefix \o clean \o FilenameSuffix
    IN  IF Len(name) > MaxFilenameLen
        THEN SubSeq(name, 1, MaxFilenameLen) \o FilenameSuffix
        ELSE name

\* open(filename, "w") and f.write(transcript): the file is created or replaced
WriteFile(files, name, content) ==
    {f \in files : f.name # name} \cup {[name |-> name, content |-> content]}

--------------------------------------------------------------------------
(* Groups of variables, and the values of those a specification leaves idle *)

inputVars == <<fileExists, fileLines, links>>
loopVars == <<i, successful_count, failed_count, failed_urls, attempted,
              results, attempts, player_client, audio_file, audioFiles,
              remaining_file>>
saveVars == <<video_title, transcript, clean_title, filename, transcripts>>
batchVars == <<batch_size, batch_i, batch_files, summary_file>>

\* ydl_opts['extractor_args']['youtube']['player_client'] as ydl_opts is built
InitialPlayerClient == <<"ios", "android", "web">>

LoopStart ==
    /\ i = 0 /\ successful_count = 0 /\ failed_count = 0
    /\ failed_urls = <<>> /\ attempted = <<>> /\ results = <<>>
    /\ attempts = <<>> /\ player_client = InitialPlayerClient
    /\ audio_file = 0 /\ audioFiles = {}

LoopIdle == LoopStart /\ remaining_file = <<>>

SaveIdle ==
    /\ video_title = <<>> /\ transcript = <<>> /\ clean_title = <<>>
    /\ filename = <<>> /\ transcripts = {}

BatchIdle ==
    batch_size = 1 /\ batch_i = 0 /\ batch_files = {} /\ summary_file = <<>>

--------------------------------------------------------------------------
(* SpecRead: read_links_from_file of each script on a bounded links file *)

\* Lines a links file may hold: blank ones, comments, indented comments,
\* links, links with whitespace around them, a link with a '#' inside
ReadLines ==
    { <<>>, <<" ">>, <<"#", "c">>, <<" ", "#", "c">>, <<"u">>,
      <<" ", "u", "\t">>, <<"v", "#">> }

ReadFiles == SeqsUpTo(ReadLines, MaxFileLines)

InitRead ==
    /\ script \in PipelineScripts
    /\ pc = "read"
    /\ fileExists \in BOOLEAN
    /\ fileLines \in ReadFiles
    /\ (~fileExists => fileLines = <<>>)
    /\ links = <<>>
    /\ LoopIdle /\ SaveIdle /\ BatchIdle

ReadCall ==
    /\ pc = "read"
    /\ links' = read_links_from_file(script, fileExists, fileLines)
    /\ pc' = "read_done"
    /\ UNCHANGED <<script, fileExists, fileLines, loopVars, saveVars, batchVars>>

NextRead == ReadCall

SpecRead == InitRead /\ [][NextRead]_vars

--------------------------------------------------------------------------
(* SpecSave: save_transcript_to_file on a bounded set of titles *)

ForbiddenChars == {" ", "|", "/", "\\", ":", "?", "*", "<", ">", "\""}

TitleChars == ForbiddenChars \cup {"a", "_"}

ShortTitles == SeqsUpTo(TitleChars, MaxTitleLen)

Pad(n) == [j \in 1..n |-> "a"]

\* Title lengths around the longest title whose filename is not cut
LongestUncut == MaxFilenameLen - Len(FilenamePrefix) - Len(FilenameSuffix)
PadLens == {LongestUncut - 1, LongestUncut, LongestUncut + 1, LongestUncut + 50}

LongTitles == {Pad(n) \o t : n \in PadLens, t \in SeqsUpTo(TitleChars, 1)}

SaveTitles == ShortTitles \cup LongTitles

InitSave ==
    /\ script \in PipelineScripts
    /\ pc = "save_call"
    /\ video_title \in SaveTitles
    /\ transcript \in {<<>>, <<1>>}
    /\ clean_title = <<>> /\ filename = <<>> /\ transcripts = {}
    /\ fileExists = TRUE /\ fileLines = <<>> /\ links = <<>>
    /\ LoopIdle /\ BatchIdle

\* save_transcript_to_file(transcript, video_title): returns at once on a
\* falsy transcript; open() may raise (OSError)
SaveCall ==
    /\ pc = "save_call"
    /\ IF transcript = <<>>
       THEN /\ pc' = "save_returned"
            /\ UNCHANGED <<clean_title, filename, transcripts>>
       ELSE /\ clean_title' = CleanTitle(video_title)
            /\ filename' = Filename(clean_title')
            /\ \E ok \in BOOLEAN :
                 IF ok
                 THEN /\ transcripts' = WriteFile(transcripts, filename', transcript)
                      /\ pc' = "save_returned"
                 ELSE /\ transcripts' = transcripts
                      /\ pc' = "save_raised"
    /\ UNCHANGED <<script, video_title, transcript, inputVars, loopVars, batchVars>>

NextSave == SaveCall

SpecSave == InitSave /\ [][NextSave]_vars

--------------------------------------------------------------------------
(* SpecBatches: create_batches of create_batches.py *)

DigitChars == <<"0", "1", "2", "3", "4", "5", "6", "7", "8", "9">>

\* str(n) for n >= 0, as its characters
RECURSIVE Digits(_)
Digits(n) ==
    IF n < 10 THEN <<DigitChars[n + 1]>>
    ELSE Digits(n \div 10) \o <<DigitChars[(n % 10) + 1]>>

\* f"{n:02d}": at least two digits, padded with '0'
Format02d(n) == IF n < 10 THEN <<"0">> \o Digits(n) ELSE Digits(n)

\* batch_filename = f"{output_prefix}_{i+1:02d}.txt" for the loop index idx
batch_filename(idx) == <<"links_batch", "_">> \o Format02d(idx + 1) \o <<".txt">>

\* A variant that rounds down.
total_batches_floor(total_links, size) == total_links \div size

\* total_batches = (total_links + batch_size - 1) // batch_size
total_batches(total_links, size) == (total_links + size - 1) \div size

Min(x, y) == IF x <= y THEN x ELSE y

\* start_idx = i * batch_size
start_idx(idx, size) == idx * size

\* end_idx = min(start_idx + batch_size, total_links)
end_idx(idx, size, total_links) == Min(start_idx(idx, size) + size, total_links)

\* batch_links = links[start_idx:end_idx]
batch_links(all, idx, size) ==
    SubSeq(all, start_idx(idx, size) + 1, end_idx(idx, size, Len(all)))

\* f"# Batch {i+1}/{total_batches} - Links {start_idx+1}-{end_idx}"
batch_header(idx, size, total_links) ==
    <<"#", " ", "Batch", " ">> \o Digits(idx + 1) \o <<"/">>
    \o Digits(total_batches(total_links, size))
    \o <<" ", "-", " ", "Links", " ">> \o Digits(start_idx(idx, size) + 1)
    \o <<"-">> \o Digits(end_idx(idx, size, total_links))

\* the links read at lines 24-25: the same filter as the pipelines' readers
create_batches_links(lines) ==
    StripAll(SelectSeq(lines, LAMBDA line :
                 Strip(line) # <<>> /\ ~StartsWith(line, "#")))

BatchLines == { <<"u">>, <<"v">>, <<"w">>, <<"#", "c">> }

InitBatches ==
    /\ script = "create_batches"
    /\ pc = "cb_start"
    /\ fileExists \in BOOLEAN
    /\ fileLines \in SeqsUpTo(BatchLines, MaxBatchLines)
    /\ (~fileExists => fileLines = <<>>)
    /\ links = <<>>
    /\ batch_size \in 1..MaxBatchSize
    /\ batch_i = 0 /\ batch_files = {} /\ summary_file = <<>>
    /\ LoopIdle /\ SaveIdle

\* lines 19-35: the existence test, the read, the test for no links
CB_Read ==
    /\ pc = "cb_start"
    /\ IF ~fileExists
       THEN links' = links /\ pc' = "cb_returned"
       ELSE /\ links' = create_batches_links(fileLines)
            /\ pc' = IF links' = <<>> THEN "cb_returned" ELSE "cb_loop"
    /\ UNCHANGED <<script, fileExists, fileLines, loopVars, saveVars, batchVars>>

\* lines 38-50: one iteration of "for i in range(total_batches)"
CB_WriteBatch ==
    /\ pc = "cb_loop"
    /\ batch_i < total_batches(Len(links), batch_size)
    /\ batch_files' = WriteFile(batch_files, batch_filename(batch_i),
            <<batch_header(batch_i, batch_size, Len(links))>>
            \o batch_links(links, batch_i, batch_size))
    /\ batch_i' = batch_i + 1
    /\ UNCHANGED <<script, pc, inputVars, loopVars, saveVars, batch_size,
                   summary_file>>

\* lines 52-79: the summary file, after the last batch
CB_Summary ==
    /\ pc = "cb_loop"
    /\ batch_i = total_batches(Len(links), batch_size)
    /\ summary_file' =
          <<[total_links |-> Len(links),
             batch_size |-> batch_size,
             total_batches |-> total_batches(Len(links), batch_size),
             files |-> [j \in 1..total_batches(Len(links), batch_size) |->
                          [name |-> batch_filename(j - 1),
                           first |-> start_idx(j - 1, batch_size) + 1,
                           last |-> end_idx(j - 1, batch_size, Len(links))]]]>>
    /\ pc' = "cb_done"
    /\ UNCHANGED <<script, inputVars, loopVars, saveVars, batch_size, batch_i,
                   batch_files>>

\* lines 66-79, the instructions create_batches gives: a batch file is
\* renamed (copied) to links.txt and a pipeline script is run, which reads it
CB_UseBatch ==
    /\ pc = "cb_done"
    /\ \E f \in batch_files, s \in PipelineScripts :
         /\ script' = s
         /\ fileExists' = TRUE
         /\ fileLines' = f.content
         /\ links' = read_links_from_file(s, TRUE, f.content)
    /\ pc' = "batch_read"
    /\ UNCHANGED <<loopVars, saveVars, batchVars>>

NextBatches == CB_Read \/ CB_WriteBatch \/ CB_Summary \/ CB_UseBatch

SpecBatches == InitBatches /\ [][NextBatches]_vars

\* ceil(n / d), stated without the code's arithmetic
CeilDiv(n, d) == CHOOSE m \in 0..n : m * d >= n /\ (m = 0 \/ (m - 1) * d < n)

\* The links of batch file number j: its lines after the header line
LinksOfBatch(j) ==
    LET f == CHOOSE x \in batch_files : x.name = batch_filename(j - 1)
    IN  Tail(f.content)

RECURSIVE ConcatBatches(_)
ConcatBatches(n) ==
    IF n = 0 THEN <<>> ELSE ConcatBatches(n - 1) \o LinksOfBatch(n)

\* C4: for N >= 1 links and batch_size >= 1, create_batches writes exactly
\* ceil(N/batch_size) batch files; their links concatenated in batch-number
\* order are the input list; every batch holds between 1 and batch_size links
\* and every batch but the last holds exactly batch_size.
C4_BatchesPartitionLinks ==
    pc = "cb_done" =>
        LET n == CeilDiv(Len(links), batch_size)
        IN  /\ Cardinality(batch_files) = n
            /\ {f.name : f \in batch_files} = {batch_filename(j - 1) : j \in 1..n}
            /\ ConcatBatches(n) = links
            /\ \A j \in 1..n :
                  /\ Len(LinksOfBatch(j)) >= 1
                  /\ Len(LinksOfBatch(j)) <= batch_size
                  /\ (j < n => Len(LinksOfBatch(j)) = batch_size)

C4_Witness ==
    /\ pc = "cb_done"
    /\ Len(links) = 4
    /\ batch_size = 3
    /\ Cardinality(batch_files) = 2
    /\ links[1] # links[2]

--------------------------------------------------------------------------
(* Spec: a run of one of the four pipeline scripts on a bounded links file *)

\* the length of a video id: {11} in the pattern of get_video_id_from_url
VideoIdLen == 11

\* Characters of the class [a-zA-Z0-9_-] that the links of the model use
IdChars == {"a", "b", "-", "_"}

\* re.search(r'(?:v=|/)([a-zA-Z0-9_-]{11})(?:\S+)?', url): group 1 of the
\* leftmost match, None (the empty sequence) without a match
get_video_id_from_url(url) ==
    LET starts == {p \in 1..Len(url) :
                     /\ url[p] \in {"v=", "/"}
                     /\ p + VideoIdLen <= Len(url)
                     /\ \A q \in (p + 1)..(p + VideoIdLen) : url[q] \in IdChars}
    IN  IF starts = {} THEN <<>>
        ELSE LET p == CHOOSE x \in starts : \A y \in starts : x <= y
             IN  SubSeq(url, p + 1, p + VideoIdLen)

\* video_title = f"video_{video_id}"
caption_title(video_id) == <<"v", "i", "d", "e", "o", "_">> \o video_id

\* A variant with two configurations swapped.
client_configs_swapped ==
    << <<"android">>, <<"ios">>, <<"web">>, <<"mweb">> >>

\* client_configs: the 'player_client' of each fallback configuration
client_configs ==
    << <<"ios">>, <<"android">>, <<"web">>, <<"mweb">> >>

\* current_opts['extractor_args']['youtube'].update(client_config): the
\* nested dict is shared with ydl_opts (copy() is shallow); its
\* 'player_client' becomes that of client_config
update_player_client(current, client_config) == client_config

\* A variant with the two language codes swapped.
language_preferences_swapped == <<"iw", "he">>

\* language_preferences = ['he', 'iw']
language_preferences == <<"he", "iw">>

\* A variant that counts a failure for every link.
FailedAfterAlways(success, n) == n + 1

\* A variant that counts a success for every link.
SuccessfulAfterAlways(success, n) == n + 1

\* if success: successful_count += 1
SuccessfulAfter(success, n) == IF success THEN n + 1 ELSE n

\* else: failed_count += 1
FailedAfter(success, n) == IF success THEN n ELSE n + 1

\* hybrid_approach.py: else: failed_urls.append(url)
FailedUrlsAfter(success, urls, url) ==
    IF success THEN urls ELSE Append(urls, url)

\* The links file of a run: two links with a video id, a link without one,
\* a comment line
LinkOne ==
    <<"https:", "/", "/", "youtu.be", "/">> \o [j \in 1..VideoIdLen |-> "a"]
LinkTwo ==
    <<"https:", "/", "/", "youtube.com", "/", "watch?", "v=">>
    \o [j \in 1..VideoIdLen |-> "b"]
LinkNoId == <<"https:", "/", "/", "youtu.be", "/", "a", "b">>
CommentLine == <<"#", " ", "my", " ", "list">>

MainLines == {LinkOne, LinkTwo, LinkNoId, CommentLine}

\* Titles extract_info may give: two that sanitize to the same filename, and
\* an empty one
MainTitles == { <<"T">>, <<"T", "|">>, <<>> }

\* The header create_remaining_links_file writes: three comment lines and an
\* empty line
remaining_header ==
    << <<"#", " ", "Videos", " ", "that", " ", "need", " ", "local", " ",
         "audio", " ", "transcription">>,
       <<"#", " ", "These", " ", "videos", " ", "don't", " ", "have", " ",
         "Hebrew", " ", "transcripts", " ", "available">>,
       <<"#", " ", "Process", " ", "these", " ", "locally", " ", "with", " ",
         "authentication">>,
       <<>> >>

\* A link of the links file of an earlier run
LinkOld ==
    <<"https:", "/", "/", "youtu.be", "/">> \o [j \in 1..VideoIdLen |-> "_"]

\* A remaining_links.txt that an earlier run of hybrid_approach.py left
StaleRemaining == remaining_header \o <<LinkOld>>

\* The files create_remaining_links_file can write for links of the model:
\* what local_with_auth.py finds as remaining_links.txt after a hybrid run
HandoffFiles ==
    {remaining_header \o urls :
        urls \in SeqsUpTo({LinkOne, LinkTwo, LinkNoId}, MaxLinks) \ {<<>>}}

\* The links file of the run is links.txt, and remaining_links.txt for
\* local_with_auth.py; hybrid_approach.py may find a remaining_links.txt of
\* an earlier run in the directory
Init ==
    /\ script \in PipelineScripts
    /\ pc = "start"
    /\ fileExists \in BOOLEAN
    /\ fileLines \in SeqsUpTo(MainLines, MaxLinks)
                      \cup (IF script = "local" THEN HandoffFiles ELSE {})
    /\ (~fileExists => fileLines = <<>>)
    /\ links = <<>>
    /\ LoopStart
    /\ remaining_file \in (IF script = "hybrid"
                            THEN {<<>>, StaleRemaining} ELSE {<<>>})
    /\ SaveIdle /\ BatchIdle

\* The return of the per-link handler to the main loop, and the counting the
\* loop does with it: `name` is the transcript file the handler wrote (the
\* empty sequence when it wrote none)
Return(success, name) ==
    /\ successful_count' = SuccessfulAfter(success, successful_count)
    /\ IF script = "hybrid"
       THEN /\ failed_urls' = FailedUrlsAfter(success, failed_urls, links[i])
            /\ failed_count' = failed_count
       ELSE /\ failed_count' = FailedAfter(success, failed_count)
            /\ failed_urls' = failed_urls
    /\ results' = Append(results, [ok |-> success, file |-> name])
    /\ pc' = "loop"

\* __main__ up to the loop: the links are read; the script exits without
\* links (local_with_auth.py also when the file does not exist)
M_ReadLinks ==
    /\ pc = "start"
    /\ IF script = "local" /\ ~fileExists
       THEN links' = links /\ pc' = "exit"
       ELSE /\ links' = read_links_from_file(script, fileExists, fileLines)
            /\ pc' = IF links' = <<>> THEN "exit" ELSE "loop"
    /\ UNCHANGED <<script, fileExists, fileLines, loopVars, saveVars, batchVars>>

\* for i, url in enumerate(links, 1): the handling of the next link starts
M_NextLink ==
    /\ pc = "loop"
    /\ i < Len(links)
    /\ i' = i + 1
    /\ attempted' = Append(attempted, links[i + 1])
    /\ attempts' = <<>>
    /\ player_client' = InitialPlayerClient
    /\ audio_file' = 0
    /\ video_title' = <<>> /\ transcript' = <<>>
    /\ clean_title' = <<>> /\ filename' = <<>>
    /\ pc' = IF script \in {"a", "local"} THEN "download" ELSE "captions"
    /\ UNCHANGED <<script, inputVars, successful_count, failed_count,
                   failed_urls, results, transcripts, audioFiles,
                   remaining_file, batchVars>>

\* the loop is over: the final summary is printed
M_Summary ==
    /\ pc = "loop"
    /\ i = Len(links)
    /\ pc' = IF script = "hybrid" THEN "phase2" ELSE "done"
    /\ UNCHANGED <<script, inputVars, loopVars, saveVars, batchVars>>

\* hybrid_approach.py, after the summary: create_remaining_links_file
H_Phase2 ==
    /\ pc = "phase2"
    /\ remaining_file' = IF failed_urls # <<>>
                         THEN remaining_header \o failed_urls
                         ELSE remaining_file
    /\ pc' = "done"
    /\ UNCHANGED <<script, inputVars, i, successful_count, failed_count,
                   failed_urls, attempted, results, attempts, player_client,
                   audio_file, audioFiles, saveVars, batchVars>>

\* a.py, download_audio_from_youtube: one iteration of the loop over
\* client_configs.  The attempt fails with a DownloadError (the handler
\* sleeps unless it was the last configuration), with another exception, or
\* because no downloaded file is found (neither handler sleeps); or it finds
\* a media file and returns it with the title.  The file found is the one
\* just downloaded or another media file of the directory: the patterns of
\* lines 92-98 match by the first characters of the title, then by extension.
A_Attempt ==
    /\ pc = "download" /\ script = "a"
    /\ Len(attempts) < Len(client_configs)
    /\ LET k == Len(attempts) + 1
       IN  /\ player_client' = update_player_client(player_client, client_configs[k])
           /\ \E outcome \in {"DownloadError", "Exception", "NotFound", "Found"} :
                IF outcome = "Found"
                THEN \E title \in MainTitles, file \in audioFiles \cup {i} :
                       /\ attempts' = Append(attempts,
                              [client |-> player_client', ok |-> TRUE,
                               slept_after |-> FALSE])
                       /\ audioFiles' = audioFiles \cup {i}
                       /\ audio_file' = file
                       /\ video_title' = title
                       /\ IF title # <<>>
                          THEN /\ pc' = "transcribe"
                               /\ UNCHANGED <<successful_count, failed_count,
                                              failed_urls, results>>
                          ELSE Return(FALSE, <<>>)
                ELSE /\ attempts' = Append(attempts,
                            [client |-> player_client', ok |-> FALSE,
                             slept_after |-> (outcome = "DownloadError"
                                              /\ k < Len(client_configs))])
                     /\ UNCHANGED <<pc, audioFiles, audio_file, video_title,
                                    successful_count, failed_count,
                                    failed_urls, results>>
    /\ UNCHANGED <<script, inputVars, i, attempted, remaining_file, transcript,
                   clean_title, filename, transcripts, batchVars>>

\* a.py: every configuration failed: (None, None), the link is skipped
A_AllFailed ==
    /\ pc = "download" /\ script = "a"
    /\ Len(attempts) = Len(client_configs)
    /\ Return(FALSE, <<>>)
    /\ UNCHANGED <<script, inputVars, i, attempted, attempts, player_client,
                   audio_file, audioFiles, remaining_file, saveVars, batchVars>>

\* local_with_auth.py, download_audio_local_with_auth: one attempt, which
\* raises (any exception gives (None, None)), finds no file, or finds one
L_Download ==
    /\ pc = "download" /\ script = "local"
    /\ \E outcome \in {"Error", "NotFound", "Found"} :
         IF outcome = "Found"
         THEN \E title \in MainTitles, file \in audioFiles \cup {i} :
                /\ attempts' = <<[client |-> <<>>, ok |-> TRUE,
                                  slept_after |-> FALSE]>>
                /\ audioFiles' = audioFiles \cup {i}
                /\ audio_file' = file
                /\ video_title' = title
                /\ IF title # <<>>
                   THEN /\ pc' = "transcribe"
                        /\ UNCHANGED <<successful_count, failed_count,
                                       failed_urls, results>>
                   ELSE Return(FALSE, <<>>)
         ELSE /\ attempts' = <<[client |-> <<>>, ok |-> FALSE,
                                slept_after |-> FALSE]>>
              /\ UNCHANGED <<audioFiles, audio_file, video_title>>
              /\ Return(FALSE, <<>>)
    /\ UNCHANGED <<script, inputVars, i, attempted, player_client,
                   remaining_file, transcript, clean_title, filename,
                   transcripts, batchVars>>

\* transcribe_audio_with_whisper / transcribe_with_whisper_local: the text of
\* the audio file, or None when the model raises (an empty text is as falsy).
\* a.py goes on to save whatever it got; local_with_auth.py returns False
\* on a falsy transcript.
M_Transcribe ==
    /\ pc = "transcribe"
    /\ \E t \in {<<>>, <<audio_file>>} :
         /\ transcript' = t
         /\ IF script = "local" /\ t = <<>>
            THEN Return(FALSE, <<>>)
            ELSE /\ pc' = "save"
                 /\ UNCHANGED <<successful_count, failed_count, failed_urls,
                                results>>
    /\ UNCHANGED <<script, inputVars, i, attempted, attempts, player_client,
                   audio_file, audioFiles, remaining_file, video_title,
                   clean_title, filename, transcripts, batchVars>>

\* save_transcript_to_file as each script calls it: nothing is written for
\* a falsy transcript; open() may raise.  a.py and local_with_auth.py go on
\* to delete the audio file, and catch the exception; alternative_transcript.py
\* returns True, and catches the exception; hybrid_approach.py counts a
\* success, and calls it outside of any try.
M_Save ==
    /\ pc = "save"
    /\ IF transcript = <<>>
       THEN /\ pc' = "remove"
            /\ UNCHANGED <<clean_title, filename, transcripts,
                           successful_count, failed_count, failed_urls, results>>
       ELSE /\ clean_title' = CleanTitle(video_title)
            /\ filename' = Filename(clean_title')
            /\ \E ok \in BOOLEAN :
                 IF ok
                 THEN /\ transcripts' = WriteFile(transcripts, filename', transcript)
                      /\ IF script \in {"a", "local"}
                         THEN /\ pc' = "remove"
                              /\ UNCHANGED <<successful_count, failed_count,
                                             failed_urls, results>>
                         ELSE Return(TRUE, filename')
                 ELSE /\ transcripts' = transcripts
                      /\ IF script = "hybrid"
                         THEN /\ pc' = "aborted"
                              /\ UNCHANGED <<successful_count, failed_count,
                                             failed_urls, results>>
                         ELSE Return(FALSE, <<>>)
    /\ UNCHANGED <<script, inputVars, i, attempted, attempts, player_client,
                   audio_file, audioFiles, remaining_file, video_title,
                   transcript, batchVars>>

\* os.remove(audio_file), which may raise: a.py then returns False;
\* local_with_auth.py ignores the exception
M_Remove ==
    /\ pc = "remove"
    /\ \E ok \in BOOLEAN :
         IF ok
         THEN /\ audioFiles' = audioFiles \ {audio_file}
              /\ Return(TRUE, filename)
         ELSE /\ audioFiles' = audioFiles
              /\ Return(script = "local", IF script = "local" THEN filename ELSE <<>>)
    /\ UNCHANGED <<script, inputVars, i, attempted, attempts, player_client,
                   audio_file, remaining_file, saveVars, batchVars>>

\* get_transcript_from_youtube, before the loop: without a video id the
\* function returns at once
C_GetVideoId ==
    /\ pc = "captions"
    /\ IF get_video_id_from_url(links[i]) = <<>>
       THEN Return(FALSE, <<>>)
       ELSE /\ pc' = "caption_fetch"
            /\ UNCHANGED <<successful_count, failed_count, failed_urls, results>>
    /\ UNCHANGED <<script, inputVars, i, attempted, attempts, player_client,
                   audio_file, audioFiles, remaining_file, saveVars, batchVars>>

\* get_transcript_from_youtube: one iteration of the loop over
\* language_preferences.  get_transcript raises or returns an empty list
\* (the next code is tried, without a sleep), or returns a transcript, whose
\* formatted text may be empty.  The caller saves a truthy text.
C_Fetch ==
    /\ pc = "caption_fetch"
    /\ Len(attempts) < Len(language_preferences)
    /\ LET lang == language_preferences[Len(attempts) + 1]
       IN  \E outcome \in {"raise", "empty", "blank", "ok"} :
             /\ attempts' = Append(attempts,
                    [client |-> lang, ok |-> outcome \in {"blank", "ok"},
                     slept_after |-> FALSE])
             /\ CASE outcome = "ok" ->
                       /\ transcript' = <<i>>
                       /\ video_title' = caption_title(get_video_id_from_url(links[i]))
                       /\ pc' = "save"
                       /\ UNCHANGED <<successful_count, failed_count,
                                      failed_urls, results>>
                  [] outcome = "blank" ->
                       /\ transcript' = <<>>
                       /\ video_title' = caption_title(get_video_id_from_url(links[i]))
                       /\ Return(FALSE, <<>>)
                  [] OTHER ->
                       UNCHANGED <<transcript, video_title, pc, successful_count,
                                   failed_count, failed_urls, results>>
    /\ UNCHANGED <<script, inputVars, i, attempted, player_client, audio_file,
                   audioFiles, remaining_file, clean_title, filename,
                   transcripts, batchVars>>

\* get_transcript_from_youtube: no language code gave a transcript
C_NoTranscript ==
    /\ pc = "caption_fetch"
    /\ Len(attempts) = Len(language_preferences)
    /\ Return(FALSE, <<>>)
    /\ UNCHANGED <<script, inputVars, i, attempted, attempts, player_client,
                   audio_file, audioFiles, remaining_file, saveVars, batchVars>>

Next ==
    \/ M_ReadLinks \/ M_NextLink \/ M_Summary \/ H_Phase2
    \/ A_Attempt \/ A_AllFailed \/ L_Download
    \/ M_Transcribe \/ M_Save \/ M_Remove
    \/ C_GetVideoId \/ C_Fetch \/ C_NoTranscript

Spec == Init /\ [][Next]_vars

--------------------------------------------------------------------------
(* Claims on read_links_from_file and save_transcript_to_file *)

\* What the links file holds as links: its lines that are neither empty once
\* stripped nor start with '#', each stripped, in order
RECURSIVE ExpectedLinks(_)
ExpectedLinks(lines) ==
    IF lines = <<>> THEN <<>>
    ELSE LET line == Head(lines)
             rest == ExpectedLinks(Tail(lines))
         IN  IF Strip(line) = <<>> \/ (Len(line) > 0 /\ line[1] = "#")
             THEN rest
             ELSE <<Strip(line)>> \o rest

\* C3: read_links_from_file of every script returns exactly the lines that
\* are neither empty after stripping nor start with '#', each stripped, in
\* order: no comment line and no blank line is returned, no other is dropped.
C3_ReadLinksSkipsBlankAndComment ==
    (pc = "read_done" /\ fileExists) => links = ExpectedLinks(fileLines)

\* The same of the three scripts whose reader tests startswith('#')
ReadLinksOfFilteringScripts ==
    (pc = "read_done" /\ fileExists /\ script # "a") =>
        links = ExpectedLinks(fileLines)

\* C5: the filename save_transcript_to_file opens is at most 200 characters.
C5_FilenameAtMost200 ==
    Len(filename) <= 200

\* C6: the filename save_transcript_to_file produces holds no character of
\* the forbidden set.
C6_FilenameHasNoForbiddenChar ==
    \A j \in 1..Len(filename) : filename[j] \notin ForbiddenChars

C6_Witness ==
    /\ pc = "save_returned"
    /\ filename # <<>>
    /\ \E j \in 1..Len(video_title) : video_title[j] \in ForbiddenChars
    /\ \E f \in transcripts : f.name = filename

\* C7 as stated: the sanitized title has the length of the title and differs
\* from it only where the title holds an illegal character, and holds '_' there.
C7_OneForOne ==
    (pc \in {"save_returned", "save_raised"} /\ transcript # <<>>) =>
        /\ Len(clean_title) = Len(video_title)
        /\ \A j \in 1..Len(video_title) :
              clean_title[j] = IF video_title[j] \in ForbiddenChars
                               THEN "_" ELSE video_title[j]

\* C7 as amended: every '|' of the title is deleted and every other character
\* of the forbidden set is replaced by '_', one for one; the other characters
\* are kept, in order.
C7_PipeDeletedOthersReplaced ==
    (pc \in {"save_returned", "save_raised"} /\ transcript # <<>>) =>
        LET kept == SelectSeq(video_title, LAMBDA c : c # "|")
        IN  /\ Len(clean_title) = Len(kept)
            /\ \A j \in 1..Len(kept) :
                  clean_title[j] = IF kept[j] \in ForbiddenChars
                                   THEN "_" ELSE kept[j]

C7_Witness ==
    /\ pc = "save_returned"
    /\ transcript # <<>>
    /\ \E j, m \in 1..Len(video_title) :
          j # m /\ video_title[j] = "|" /\ video_title[m] = "?"
    /\ clean_title = <<"_">>

--------------------------------------------------------------------------
(* Claims on the pipeline runs *)

IsPrefix(a, b) == Len(a) <= Len(b) /\ a = SubSeq(b, 1, Len(a))

\* The failure counter of the running script
FailureCounter == IF script = "hybrid" THEN Len(failed_urls) ELSE failed_count

\* C1: a failure while processing one link never aborts the batch: each link
\* is attempted exactly once, in input order, and the run reaches its final
\* summary.
C1_FailureNeverAbortsBatch ==
    /\ pc # "aborted"
    /\ IsPrefix(attempted, links)
    /\ (pc \in {"phase2", "done"} => attempted = links)

\* C2: after i links have been handled the success counter and the failure
\* counter (the length of failed_urls in the hybrid script) sum to i, each
\* handled link has incremented exactly one of them, and after a full run
\* they sum to the number of links read.
C2_CountersSumToHandled ==
    /\ successful_count + FailureCounter = Len(results)
    /\ (pc = "loop" => successful_count + FailureCounter = i)
    /\ (pc \in {"phase2", "done"} =>
            successful_count + FailureCounter = Len(links))
    /\ successful_count = Cardinality({j \in 1..Len(results) : results[j].ok})
    /\ FailureCounter = Cardinality({j \in 1..Len(results) : ~results[j].ok})

C2_Witness ==
    /\ pc = "done"
    /\ Len(links) = 2
    /\ successful_count = 1
    /\ FailureCounter = 1

\* C8: at the end of a run every link counted as successful has a transcript
\* file of its own, written during the run and holding that video's
\* transcript, so the number of transcript files equals the success counter.
C8_OneFilePerSuccess ==
    pc = "done" =>
        /\ Cardinality(transcripts) = successful_count
        /\ \A j \in 1..Len(results) :
              results[j].ok =>
                 /\ results[j].file # <<>>
                 /\ \E f \in transcripts :
                       f.name = results[j].file /\ f.content = <<j>>
                 /\ \A m \in 1..Len(results) :
                       (m # j /\ results[m].ok) => results[m].file # results[j].file

\* The client identities in the order the claim gives
ExpectedClients == <<"ios", "android", "web", "mweb">>

\* C9: download_audio_from_youtube tries ios, android, web, mweb in this
\* order: the k-th attempt runs with exactly the k-th client identity, it is
\* made only after attempts 1..k-1 failed, no attempt follows a successful
\* one, at most 4 are made, and (None, None) is returned only after all 4
\* have failed.
C9_ClientsTriedInOrder ==
    script = "a" =>
        /\ Len(attempts) <= 4
        /\ \A k \in 1..Len(attempts) :
              /\ attempts[k].client = <<ExpectedClients[k]>>
              /\ (k < Len(attempts) => ~attempts[k].ok)
        /\ (pc = "loop" /\ i >= 1 /\ audio_file = 0) =>
              /\ Len(attempts) = 4
              /\ \A k \in 1..4 : ~attempts[k].ok

C9_Witness ==
    /\ script = "a"
    /\ pc = "transcribe"
    /\ Len(attempts) = 4
    /\ attempts[4].ok
    /\ attempts[4].client = <<"mweb">>

\* C10: between any two consecutive attempts of a fallback list a delay is
\* taken: attempt k+1 never starts without a sleep after the failure of
\* attempt k.
C10_SleepBetweenAttempts ==
    \A k \in 2..Len(attempts) : attempts[k - 1].slept_after

--------------------------------------------------------------------------
(* Claims on the exhausted fallback list *)

\* Every configuration of the fallback list of the running script has been
\* tried for the current link, and every one has failed
FallbackExhausted ==
    \/ /\ script = "a" /\ pc = "download"
       /\ Len(attempts) = 4
       /\ \A k \in 1..4 : ~attempts[k].ok
    \/ /\ script \in {"alternative", "hybrid"} /\ pc = "caption_fetch"
       /\ Len(attempts) = 2
       /\ \A k \in 1..2 : ~attempts[k].ok

\* C11: when every configuration has failed for a link, the next step counts
\* the link as failed exactly once and never as successful, makes no further
\* attempt for it and returns to the loop; the loop only ever moves on to
\* the next link, so the link is not retried in the run.
C11_ExhaustionIsTerminalFailure ==
    /\ [][FallbackExhausted =>
             /\ FailureCounter' = FailureCounter + 1
             /\ successful_count' = successful_count
             /\ attempts' = attempts
             /\ i' = i
             /\ pc' = "loop"]_vars
    /\ [][i' # i => (pc = "loop" /\ i' = i + 1 /\ attempts' = <<>>)]_vars

C11_Witness ==
    /\ script = "a"
    /\ pc = "loop"
    /\ i = 1
    /\ Len(links) = 2
    /\ Len(attempts) = 4
    /\ \A k \in 1..4 : ~attempts[k].ok
    /\ failed_count = 1
    /\ successful_count = 0

--------------------------------------------------------------------------
(* Claims on the two phases of the hybrid script and on the hand-off file *)

\* The elements of a sequence
Range(seq) == {seq[j] : j \in 1..Len(seq)}

\* Link j got its transcript saved by the fast path
SavedByFastPath(j) ==
    /\ j <= Len(results)
    /\ results[j].ok
    /\ \E f \in transcripts : f.name = results[j].file

\* Link j's fast path failed and the link is handed to the slow path: it is
\* among the links local_with_auth.py reads from remaining_links.txt
SentToSlowPath(j) ==
    /\ j <= Len(results)
    /\ ~results[j].ok
    /\ remaining_file # <<>>
    /\ links[j] \in Range(local_read_links_from_file(TRUE, remaining_file))

\* C12: once the hybrid script has ended, each input link has ended in
\* exactly one of the two outcomes: its transcript was saved by the fast
\* path, or its fast path failed and it is handed to the slow path; never
\* both and never neither.
C12_EachLinkFastOrSlow ==
    (script = "hybrid" /\ pc \in {"done", "aborted"}) =>
        \A j \in 1..Len(links) : SavedByFastPath(j) # SentToSlowPath(j)

\* The same of the runs that reach their end
EachLinkFastOrSlowWhenDone ==
    (script = "hybrid" /\ pc = "done") =>
        \A j \in 1..Len(links) : SavedByFastPath(j) # SentToSlowPath(j)

\* The links whose handling failed among the first n, in input order
RECURSIVE FailedLinks(_)
FailedLinks(n) ==
    IF n = 0 THEN <<>>
    ELSE FailedLinks(n - 1) \o (IF results[n].ok THEN <<>> ELSE <<links[n]>>)

\* C13: after a hybrid run remaining_links.txt exists and lists exactly the
\* links whose caption fetch failed in that run, in input order, and
\* read_links_from_file of the local script returns exactly that list from
\* it; when no link failed, the local script finds no link to process.
C13_HandoffIsExact ==
    (script = "hybrid" /\ pc = "done") =>
        LET failedNow == FailedLinks(Len(results))
        IN  IF failedNow # <<>>
            THEN /\ remaining_file # <<>>
                 /\ local_read_links_from_file(TRUE, remaining_file) = failedNow
            ELSE local_read_links_from_file(remaining_file # <<>>,
                                            remaining_file) = <<>>

\* The same of the runs in which some link failed and that reach their end
HandoffIsExactAfterFailures ==
    (script = "hybrid" /\ pc = "done" /\ FailedLinks(Len(results)) # <<>>) =>
        /\ remaining_file # <<>>
        /\ local_read_links_from_file(TRUE, remaining_file)
              = FailedLinks(Len(results))

--------------------------------------------------------------------------
(* Claims on the temporary audio file *)

\* if audio_file and video_title (a.py line 238, local_with_auth.py line
\* 168): the download of the link in hand succeeded
DownloadSucceeded == audio_file # 0 /\ video_title # <<>>

\* C14: whenever the download of a link succeeded, once the handling of the
\* link has finished the audio file the download produced, and the file the
\* handler worked on, no longer exist; this whether transcription and saving
\* succeeded or failed, and so for every link reported successful.
C14_AudioDeletedAfterHandling ==
    (script \in {"a", "local"} /\ pc = "loop" /\ i >= 1 /\ DownloadSucceeded) =>
        /\ i \notin audioFiles
        /\ audio_file \notin audioFiles

\* C18: the audio file a download returns is one the download of the same
\* link produced, never one an earlier link left, and the text transcribed
\* and saved for a link is the speech of that link's video.
C18_AudioIsOfSameLink ==
    script \in {"a", "local"} =>
        /\ DownloadSucceeded => links[audio_file] = links[i]
        /\ transcript # <<>> => links[transcript[1]] = links[i]

--------------------------------------------------------------------------
(* Claim on the language codes of the caption fetch *)

ExpectedLanguages == <<"he", "iw">>

\* C15: the caption fetch asks for 'he' first and 'iw' second, and for 'iw'
\* only after 'he' raised or gave an empty transcript; what it returns is the
\* transcript of the first code that gave a non-empty one, and it returns
\* none exactly when both codes failed; for a URL without a video id it
\* fails without any request.
C15_HebrewCodesInOrder ==
    script \in {"alternative", "hybrid"} =>
        /\ Len(attempts) <= 2
        /\ \A k \in 1..Len(attempts) :
             /\ attempts[k].client = ExpectedLanguages[k]
             /\ k < Len(attempts) => ~attempts[k].ok
        /\ video_title # <<>> <=> (attempts # <<>> /\ attempts[Len(attempts)].ok)
        /\ pc = "save" => (transcript = <<i>> /\ attempts[Len(attempts)].ok)
        /\ (pc = "loop" /\ i >= 1) =>
             IF get_video_id_from_url(links[i]) = <<>>
             THEN attempts = <<>> /\ video_title = <<>> /\ ~results[i].ok
             ELSE video_title = <<>> <=>
                    (Len(attempts) = 2 /\ \A k \in 1..2 : ~attempts[k].ok)

C15_Witness ==
    /\ script = "hybrid" /\ pc = "save"
    /\ Len(attempts) = 2
    /\ ~attempts[1].ok
    /\ attempts[2].client = "iw" /\ attempts[2].ok
    /\ transcript = <<i>>

--------------------------------------------------------------------------
(* Claim on a links file without links *)

\* The links file is missing or unreadable, or holds no link
NoLinkToProcess == ~fileExists \/ ExpectedLinks(fileLines) = <<>>

\* C17: in alternative_transcript.py, hybrid_approach.py and
\* local_with_auth.py, when the links file is missing, unreadable or holds no
\* link the script exits before it handles any link, and writes no
\* transcript and no hand-off file; the success rate (a division by the
\* number of links) is only computed with at least one link.
C17_NoLinksExitsEarly ==
    script \in {"alternative", "hybrid", "local"} =>
        /\ (pc # "start" /\ NoLinkToProcess) =>
             /\ pc = "exit"
             /\ i = 0 /\ attempted = <<>> /\ results = <<>>
             /\ transcripts = {}
             /\ remaining_file \in {<<>>, StaleRemaining}
        /\ pc \in {"phase2", "done"} => Len(links) >= 1

C17_Witness ==
    /\ script = "hybrid" /\ pc = "exit"
    /\ fileExists /\ fileLines = <<CommentLine>>
    /\ remaining_file = <<>> /\ transcripts = {}

--------------------------------------------------------------------------
(* Claim on a batch file used as the links file *)

\* C16: a batch file used as the links file of any pipeline script is read
\* back as exactly the links of that batch, in order: the lines after its
\* header line; the header line is never returned as a link.
C16_BatchFileReadBack ==
    pc = "batch_read" =>
        /\ links = Tail(fileLines)
        /\ \A j \in 1..Len(links) : links[j] # Strip(Head(fileLines))

\* The same of the three scripts whose read_links_from_file skips comments
BatchFileReadBackByFilteringScripts ==
    (pc = "batch_read" /\ script # "a") =>
        /\ links = Tail(fileLines)
        /\ \A j \in 1..Len(links) : links[j] # Strip(Head(fileLines))

====
